---- MODULE Spec2Model ----
(***************************************************************************)
(* Model of s3_download.py: download_from_s3 fetches one object from an    *)
(* S3 bucket, either with one whole-object download_file call or as byte   *)
(* ranges fetched by a ThreadPoolExecutor and written out in index order.  *)
(*                                                                         *)
(* Bytes are modelled as extents of their origin: an extent                *)
(* [src, lo, hi] stands for the bytes lo..hi of the remote object          *)
(* (src = "remote") or of a file that was at the destination before the    *)
(* call (src = "stale").  A content is a sequence of extents in which      *)
(* adjacent extents are merged, so two contents are equal exactly when     *)
(* they hold the same bytes of the same origin at every offset.            *)
(***************************************************************************)
EXTENDS Integers, Sequences, FiniteSets, TLC

VARIABLES
    chunk_size_mb,   \* argument chunk_size_mb
    num_workers,     \* argument num_workers
    object_size,     \* ContentLength of the remote object
    pc,              \* position of the calling thread in download_from_s3
    file_size,       \* local file_size
    chunk_size,      \* local chunk_size
    num_chunks,      \* local num_chunks
    actual_workers,  \* local actual_workers
    parts,           \* the shared list parts: <<chunk_num, data>> entries
    lock,            \* threading.Lock: NoHolder or the index of the holder
    futures,         \* list futures: one record per submitted task
    num_threads,     \* worker threads the executor has spawned
    wait_i,          \* position of the loop "for future in futures"
    write_i,         \* position of the loop "for _, data in parts"
    exc,             \* the exception in flight in the calling thread
    result,          \* how the call ended
    dest,            \* the file at destination_path: NoFile or its content
    dir_exists,      \* whether destination_folder exists
    head_calls,      \* head_object calls issued
    download_calls,  \* download_file calls issued
    open_calls,      \* open(destination_path, 'wb') calls issued
    faults_left,     \* failures that may still be injected
    completion,      \* history: chunk numbers in the order they were appended
    failed_order,    \* history: chunk numbers in the order their tasks failed
    raised_at,       \* history: the statement that raised the exception exc
    dest_before,     \* the file at destination_path before the call
    dir_before,      \* whether destination_folder existed before the call
    env_complete,    \* whether the required environment variables are set
    exit_status      \* exit status of the process: NoExit while it runs

vars == <<chunk_size_mb, num_workers, object_size, pc, file_size, chunk_size,
          num_chunks, actual_workers, parts, lock, futures, num_threads,
          wait_i, write_i, exc, result, dest, dir_exists, head_calls,
          download_calls, open_calls, faults_left, completion, failed_order,
          raised_at, dest_before, dir_before, env_complete, exit_status>>

(***************************************************************************)
(* Bounds of the model.                                                    *)
(***************************************************************************)
MaxWorkers == 3        \* num_workers ranges over 1..MaxWorkers
MaxFaults == 2         \* failures injected in one call
RoundTripWorkers == 2  \* num_workers in the round-trip specification

(***************************************************************************)
(* Values.                                                                 *)
(***************************************************************************)
MB == 1024 * 1024

\* No file at the path: a content of its own, no bytes of any origin.
NoFile == <<[src |-> "absent", lo |-> 0, hi |-> -1]>>
NoHolder == -1
NoExit == -1

NoError == [cls |-> "none", code |-> "none"]
ClientError404 == [cls |-> "ClientError", code |-> "404"]
ClientErrorOther == [cls |-> "ClientError", code |-> "500"]
ClientErrorNoSuchKey == [cls |-> "ClientError", code |-> "NoSuchKey"]
OtherError == [cls |-> "Exception", code |-> "none"]

HeadErrors == {ClientError404, ClientErrorOther, OtherError}
GetErrors == {ClientErrorOther, ClientErrorNoSuchKey, OtherError}

Min(a, b) == IF a < b THEN a ELSE b

\* Python's // : floor division, for either sign of the divisor.
FloorDiv(a, b) == IF b > 0 THEN a \div b ELSE (0 - a) \div (0 - b)

Extent(src, lo, hi) == [src |-> src, lo |-> lo, hi |-> hi]

\* The bytes lo..hi of the remote object, as a content.
RemoteBytes(lo, hi) == IF hi < lo THEN <<>> ELSE <<Extent("remote", lo, hi)>>

WholeObject == RemoteBytes(0, object_size - 1)

\* A file left at the destination by an earlier run.
StaleFile == <<Extent("stale", 0, 4)>>

\* Content c followed by content d.
Concat(c, d) ==
    IF c = <<>> THEN d
    ELSE IF d = <<>> THEN c
    ELSE LET l == c[Len(c)]
             f == d[1]
         IN  IF l.src = f.src /\ l.hi + 1 = f.lo
             THEN SubSeq(c, 1, Len(c) - 1) \o <<Extent(l.src, l.lo, f.hi)>>
                  \o SubSeq(d, 2, Len(d))
             ELSE c \o d

RECURSIVE ContentLen(_)
ContentLen(c) ==
    IF c = <<>> THEN 0 ELSE (c[1].hi - c[1].lo + 1) + ContentLen(Tail(c))

(***************************************************************************)
(* Pure functions of download_from_s3.                                     *)
(***************************************************************************)
\* chunk_size = chunk_size_mb * 1024 * 1024
ChunkSizeBytes(mb) == mb * 1024 * 1024

\* Mutant: an object of exactly one chunk is downloaded directly.
UseDirectInclusive(fs, cs) == fs <= cs

\* if file_size < chunk_size: download directly
UseDirect(fs, cs) == fs < cs

\* Mutant: the number of chunks is rounded down.
NumChunksFloor(fs, cs) == FloorDiv(fs, cs)

\* num_chunks = (file_size + chunk_size - 1) // chunk_size
NumChunks(fs, cs) == FloorDiv(fs + cs - 1, cs)

\* actual_workers = min(num_workers, num_chunks)
ActualWorkers(nw, nc) == Min(nw, nc)

\* start_byte = i * chunk_size
StartByte(i, cs) == i * cs

\* Mutant: the end of a range is taken as exclusive.
EndByteOverlap(i, cs, fs) == Min(i * cs + cs, fs - 1)

\* end_byte = min(start_byte + chunk_size - 1, file_size - 1)
EndByte(i, cs, fs) == Min(StartByte(i, cs) + cs - 1, fs - 1)

\* The body of a successful get_object with Range "bytes=s-e": the store
\* ignores a Range header that is not well formed (e < s) and sends the
\* whole object, and it cuts a range at the end of the object.
RangeBody(s, e) ==
    IF e < s THEN WholeObject ELSE RemoteBytes(s, Min(e, object_size - 1))

\* parts.sort(key=lambda x: x[0]): a stable sort by chunk number.
RECURSIVE InsertPart(_, _)
InsertPart(sorted, p) ==
    IF sorted = <<>> THEN <<p>>
    ELSE IF sorted[Len(sorted)][1] <= p[1] THEN Append(sorted, p)
    ELSE Append(InsertPart(SubSeq(sorted, 1, Len(sorted) - 1), p),
                sorted[Len(sorted)])

RECURSIVE SortParts(_)
SortParts(ps) ==
    IF ps = <<>> THEN <<>>
    ELSE InsertPart(SortParts(SubSeq(ps, 1, Len(ps) - 1)), ps[Len(ps)])

(***************************************************************************)
(* The futures of the executor.                                            *)
(***************************************************************************)
\* Mutant: nothing waits for the tasks.
TerminalNoWait(f) == TRUE

\* A future is done once its task returned or raised: Future.result() and
\* the join of executor.shutdown(wait=True) both wait for this.
Terminal(f) == f.state \in {"done", "failed"}

Running(f) == f.state \in {"get_object", "lock", "append"}

RunningCount == Cardinality({t \in 1..Len(futures) : Running(futures[t])})

\* Mutant: the pool starts a thread for every task.
WorkerFreeUnbounded == TRUE

\* A worker thread is free to take the next work item of the queue.
WorkerFree == RunningCount < num_threads

\* Mutant: every entry is filed under chunk number 0.
PartEntryFixedIndex(f) == <<0, f.data>>

\* The entry download_chunk appends to parts.
PartEntry(f) == <<f.chunk_num, f.data>>

(***************************************************************************)
(* Initial states: the arguments of the call, the remote object and the    *)
(* file system before the call.                                            *)
(***************************************************************************)
ChunkSizesMB == {-1, 0, 1, 64}

\* Object sizes around the chunk boundaries of a chunk size of mb megabytes.
SizesFor(mb) ==
    IF mb <= 0 THEN {0, 1, MB, MB + 1}
    ELSE LET C == ChunkSizeBytes(mb)
         IN  {0, 1, C - 1, C, C + 1, 2 * C, 3 * C + C \div 8}

\* The sizes of the round-trip property.
RoundTripSizesFor(mb) ==
    LET C == ChunkSizeBytes(mb)
    IN  {0, 1, C - 1, C, C + 1, 10 * C + 7}

\* destination_folder and destination_path before the call.
InitFileSystems ==
    { <<FALSE, NoFile>>, <<TRUE, NoFile>>, <<TRUE, StaleFile>> }

InitWith(mbs, workers, faultBudget, roundTrip) ==
    /\ chunk_size_mb \in mbs
    /\ num_workers \in workers
    /\ object_size \in
         IF roundTrip THEN RoundTripSizesFor(chunk_size_mb)
         ELSE SizesFor(chunk_size_mb)
    /\ faults_left = faultBudget
    /\ \E fsys \in InitFileSystems :
         \* the longest object is downloaded onto an existing file only
         /\ object_size > 4 * ChunkSizeBytes(chunk_size_mb) /\ chunk_size_mb > 0
              => fsys[2] # NoFile
         /\ dir_exists = fsys[1]
         /\ dest = fsys[2]
    /\ dest_before = dest
    /\ dir_before = dir_exists
    /\ env_complete \in (IF roundTrip THEN {TRUE} ELSE BOOLEAN)
    /\ exit_status = NoExit
    /\ raised_at = "none"
    /\ failed_order = <<>>
    /\ pc = "main"
    /\ file_size = 0
    /\ chunk_size = 0
    /\ num_chunks = 0
    /\ actual_workers = 0
    /\ parts = <<>>
    /\ lock = NoHolder
    /\ futures = <<>>
    /\ num_threads = 0
    /\ wait_i = 0
    /\ write_i = 0
    /\ exc = NoError
    /\ result = "running"
    /\ head_calls = 0
    /\ download_calls = 0
    /\ open_calls = 0
    /\ completion = <<>>

Init == InitWith(ChunkSizesMB, 1..MaxWorkers, MaxFaults, FALSE)

InitRoundTrip == InitWith({1}, 1..RoundTripWorkers, 0, TRUE)

(***************************************************************************)
(* The calling thread.                                                     *)
(***************************************************************************)
\* An exception e leaves the try block.
Raise(e, at) == exc' = e /\ raised_at' = at /\ pc' = "except"

\* response = s3_client.head_object(...); file_size = ContentLength
HeadObjectOk ==
    /\ pc = "head_object"
    /\ head_calls' = head_calls + 1
    /\ file_size' = object_size
    /\ pc' = "makedirs"
    /\ UNCHANGED <<chunk_size_mb, num_workers, object_size, chunk_size,
                   num_chunks, actual_workers, parts, lock, futures,
                   num_threads, wait_i, write_i, exc, result, dest,
                   dir_exists, download_calls, open_calls, faults_left,
                   completion, failed_order, dest_before,
                   dir_before, env_complete, exit_status, raised_at>>

\* head_object raises.
HeadObjectFail ==
    /\ pc = "head_object"
    /\ faults_left > 0
    /\ faults_left' = faults_left - 1
    /\ head_calls' = head_calls + 1
    /\ \E e \in HeadErrors : Raise(e, "head_object")
    /\ UNCHANGED <<chunk_size_mb, num_workers, object_size, file_size,
                   chunk_size, num_chunks, actual_workers, parts, lock,
                   futures, num_threads, wait_i, write_i, result, dest,
                   dir_exists, download_calls, open_calls,
                   completion, failed_order, dest_before,
                   dir_before, env_complete, exit_status>>

\* os.makedirs(destination_folder, exist_ok=True)
MakeDirsOk ==
    /\ pc = "makedirs"
    /\ dir_exists' = TRUE
    /\ pc' = "plan"
    /\ UNCHANGED <<chunk_size_mb, num_workers, object_size, file_size,
                   chunk_size, num_chunks, actual_workers, parts, lock,
                   futures, num_threads, wait_i, write_i, exc, result, dest,
                   head_calls, download_calls, open_calls, faults_left,
                   completion, failed_order, dest_before,
                   dir_before, env_complete, exit_status, raised_at>>

\* os.makedirs raises OSError: the folder cannot be created.
MakeDirsFail ==
    /\ pc = "makedirs"
    /\ ~dir_exists
    /\ faults_left > 0
    /\ faults_left' = faults_left - 1
    /\ Raise(OtherError, "makedirs")
    /\ UNCHANGED <<chunk_size_mb, num_workers, object_size, file_size,
                   chunk_size, num_chunks, actual_workers, parts, lock,
                   futures, num_threads, wait_i, write_i, result, dest,
                   dir_exists, head_calls, download_calls, open_calls,
                   completion, failed_order, dest_before,
                   dir_before, env_complete, exit_status>>

\* chunk_size = ...; the direct-mode test; num_chunks, actual_workers and
\* the construction of the ThreadPoolExecutor.
Plan ==
    /\ pc = "plan"
    /\ chunk_size' = ChunkSizeBytes(chunk_size_mb)
    /\ IF UseDirect(file_size, chunk_size')
       THEN /\ pc' = "download_file"
            /\ UNCHANGED <<num_chunks, actual_workers, exc, raised_at>>
       ELSE IF chunk_size' = 0
       THEN \* ZeroDivisionError in the computation of num_chunks
            /\ Raise(OtherError, "plan")
            /\ UNCHANGED <<num_chunks, actual_workers>>
       ELSE /\ num_chunks' = NumChunks(file_size, chunk_size')
            /\ actual_workers' = ActualWorkers(num_workers, num_chunks')
            /\ IF actual_workers' <= 0
               THEN \* ThreadPoolExecutor: max_workers must be greater than 0
                    Raise(OtherError, "plan")
               ELSE pc' = "submit" /\ UNCHANGED <<exc, raised_at>>
    /\ UNCHANGED <<chunk_size_mb, num_workers, object_size, file_size, parts,
                   lock, futures, num_threads, wait_i, write_i, result, dest,
                   dir_exists, head_calls, download_calls, open_calls,
                   faults_left,
                   completion, failed_order, dest_before,
                   dir_before, env_complete, exit_status>>

\* s3_client.download_file(bucket, s3_key, destination_path) succeeds: the
\* transfer is written beside the destination and renamed onto it.
DownloadFileOk ==
    /\ pc = "download_file"
    /\ download_calls' = download_calls + 1
    /\ dest' = WholeObject
    /\ pc' = "returned"
    /\ result' = "ok"
    /\ UNCHANGED <<chunk_size_mb, num_workers, object_size, file_size,
                   chunk_size, num_chunks, actual_workers, parts, lock,
                   futures, num_threads, wait_i, write_i, exc, dir_exists,
                   head_calls, open_calls, faults_left,
                   completion, failed_order, dest_before,
                   dir_before, env_complete, exit_status, raised_at>>

\* Mutant: download_file writes into the destination itself and leaves
\* what it wrote when it fails with a ClientError.
DownloadFileFailTruncated ==
    /\ pc = "download_file"
    /\ faults_left > 0
    /\ faults_left' = faults_left - 1
    /\ download_calls' = download_calls + 1
    /\ dest' = RemoteBytes(0, object_size - 2)
    /\ Raise(ClientErrorOther, "download_file")
    /\ UNCHANGED <<chunk_size_mb, num_workers, object_size, file_size,
                   chunk_size, num_chunks, actual_workers, parts, lock,
                   futures, num_threads, wait_i, write_i, result,
                   dir_exists, head_calls, open_calls, completion,
                   failed_order, dest_before, dir_before, env_complete,
                   exit_status>>

\* download_file raises: its temporary file is removed, the destination is
\* not touched.
DownloadFileFail ==
    /\ pc = "download_file"
    /\ faults_left > 0
    /\ faults_left' = faults_left - 1
    /\ download_calls' = download_calls + 1
    /\ \E e \in HeadErrors : Raise(e, "download_file")
    /\ UNCHANGED <<chunk_size_mb, num_workers, object_size, file_size,
                   chunk_size, num_chunks, actual_workers, parts, lock,
                   futures, num_threads, wait_i, write_i, result, dest,
                   dir_exists, head_calls, open_calls,
                   completion, failed_order, dest_before,
                   dir_before, env_complete, exit_status>>

\* One round of "for i in range(num_chunks)": executor.submit queues the
\* task and starts a worker thread while fewer than max_workers exist.
Submit ==
    /\ pc = "submit"
    /\ LET i == Len(futures)
       IN  /\ futures' = Append(futures,
                  [chunk_num  |-> i,
                   start_byte |-> StartByte(i, chunk_size),
                   end_byte   |-> EndByte(i, chunk_size, file_size),
                   state      |-> "queued",
                   data       |-> <<>>,
                   err        |-> NoError,
                   gets       |-> 0])
           /\ pc' = IF i + 1 >= num_chunks THEN "wait" ELSE "submit"
    /\ num_threads' =
         IF num_threads < actual_workers THEN num_threads + 1 ELSE num_threads
    /\ UNCHANGED <<chunk_size_mb, num_workers, object_size, file_size,
                   chunk_size, num_chunks, actual_workers, parts, lock,
                   wait_i, write_i, exc, result, dest, dir_exists,
                   head_calls, download_calls, open_calls, faults_left,
                   completion, failed_order, dest_before,
                   dir_before, env_complete, exit_status, raised_at>>

\* Mutant: the exception of a failed task is dropped.
AwaitResultSwallow ==
    /\ pc = "wait"
    /\ futures[wait_i + 1].state \in {"done", "failed"}
    /\ wait_i' = wait_i + 1
    /\ pc' = IF wait_i' >= Len(futures) THEN "shutdown" ELSE "wait"
    /\ UNCHANGED <<chunk_size_mb, num_workers, object_size, file_size,
                   chunk_size, num_chunks, actual_workers, parts, lock,
                   futures, num_threads, write_i, exc, result, dest,
                   dir_exists, head_calls, download_calls, open_calls,
                   faults_left, completion, failed_order, dest_before,
                   dir_before, env_complete, exit_status, raised_at>>

\* Mutant: the caller re-raises the failure that happened first, as soon
\* as one has happened.
AwaitResultFirstObserved ==
    /\ pc = "wait"
    /\ IF failed_order # <<>>
       THEN /\ exc' = futures[failed_order[1] + 1].err
            /\ raised_at' = "chunk"
            /\ pc' = "shutdown"
            /\ UNCHANGED wait_i
       ELSE /\ futures[wait_i + 1].state = "done"
            /\ wait_i' = wait_i + 1
            /\ pc' = IF wait_i' >= Len(futures) THEN "shutdown" ELSE "wait"
            /\ UNCHANGED <<exc, raised_at>>
    /\ UNCHANGED <<chunk_size_mb, num_workers, object_size, file_size,
                   chunk_size, num_chunks, actual_workers, parts, lock,
                   futures, num_threads, wait_i, write_i, result, dest,
                   dir_exists, head_calls, download_calls, open_calls,
                   faults_left, completion, failed_order, dest_before,
                   dir_before, env_complete, exit_status>>

\* One round of "for future in futures: future.result()": it blocks until
\* the future is done and re-raises the exception of a failed task.
AwaitResult ==
    /\ pc = "wait"
    /\ LET f == futures[wait_i + 1]
       IN  /\ Terminal(f)
           /\ IF f.state = "failed"
              THEN /\ exc' = f.err
                   /\ raised_at' = "chunk"
                   /\ pc' = "shutdown"
                   /\ UNCHANGED wait_i
              ELSE /\ wait_i' = wait_i + 1
                   /\ pc' = IF wait_i' >= Len(futures) THEN "shutdown"
                            ELSE "wait"
                   /\ UNCHANGED <<exc, raised_at>>
    /\ UNCHANGED <<chunk_size_mb, num_workers, object_size, file_size,
                   chunk_size, num_chunks, actual_workers, parts, lock,
                   futures, num_threads, write_i, result, dest, dir_exists,
                   head_calls, download_calls, open_calls, faults_left,
                   completion, failed_order, dest_before,
                   dir_before, env_complete, exit_status>>

\* Mutant: the with block is left without joining the worker threads.
ShutdownNoJoin ==
    /\ pc = "shutdown"
    /\ pc' = IF exc = NoError THEN "sort" ELSE "except"
    /\ UNCHANGED <<chunk_size_mb, num_workers, object_size, file_size,
                   chunk_size, num_chunks, actual_workers, parts, lock,
                   futures, num_threads, wait_i, write_i, exc, result, dest,
                   dir_exists, head_calls, download_calls, open_calls,
                   faults_left, completion, failed_order, raised_at, dest_before,
                   dir_before, env_complete, exit_status>>

\* The end of the with block: executor.shutdown(wait=True) joins the worker
\* threads, which first run every queued task; then the block is left,
\* normally or with the exception in flight.
Shutdown ==
    /\ pc = "shutdown"
    /\ \A t \in 1..Len(futures) : Terminal(futures[t])
    /\ pc' = IF exc = NoError THEN "sort" ELSE "except"
    /\ UNCHANGED <<chunk_size_mb, num_workers, object_size, file_size,
                   chunk_size, num_chunks, actual_workers, parts, lock,
                   futures, num_threads, wait_i, write_i, exc, result, dest,
                   dir_exists, head_calls, download_calls, open_calls,
                   faults_left,
                   completion, failed_order, dest_before,
                   dir_before, env_complete, exit_status, raised_at>>

\* Mutant: the parts are written in the order they arrived.
SortSkipped ==
    /\ pc = "sort"
    /\ pc' = "open"
    /\ UNCHANGED <<chunk_size_mb, num_workers, object_size, file_size,
                   chunk_size, num_chunks, actual_workers, parts, lock,
                   futures, num_threads, wait_i, write_i, exc, result, dest,
                   dir_exists, head_calls, download_calls, open_calls,
                   faults_left, completion, failed_order, dest_before,
                   dir_before, env_complete, exit_status, raised_at>>

\* parts.sort(key=lambda x: x[0])
Sort ==
    /\ pc = "sort"
    /\ parts' = SortParts(parts)
    /\ pc' = "open"
    /\ UNCHANGED <<chunk_size_mb, num_workers, object_size, file_size,
                   chunk_size, num_chunks, actual_workers, lock, futures,
                   num_threads, wait_i, write_i, exc, result, dest,
                   dir_exists, head_calls, download_calls, open_calls,
                   faults_left,
                   completion, failed_order, dest_before,
                   dir_before, env_complete, exit_status, raised_at>>

\* open(destination_path, 'wb') creates the file or truncates it.
OpenOk ==
    /\ pc = "open"
    /\ open_calls' = open_calls + 1
    /\ dest' = <<>>
    /\ write_i' = 0
    /\ pc' = "write"
    /\ UNCHANGED <<chunk_size_mb, num_workers, object_size, file_size,
                   chunk_size, num_chunks, actual_workers, parts, lock,
                   futures, num_threads, wait_i, exc, result, dir_exists,
                   head_calls, download_calls, faults_left,
                   completion, failed_order, dest_before,
                   dir_before, env_complete, exit_status, raised_at>>

\* open raises OSError.
OpenFail ==
    /\ pc = "open"
    /\ faults_left > 0
    /\ faults_left' = faults_left - 1
    /\ open_calls' = open_calls + 1
    /\ Raise(OtherError, "open")
    /\ UNCHANGED <<chunk_size_mb, num_workers, object_size, file_size,
                   chunk_size, num_chunks, actual_workers, parts, lock,
                   futures, num_threads, wait_i, write_i, result, dest,
                   dir_exists, head_calls, download_calls,
                   completion, failed_order, dest_before,
                   dir_before, env_complete, exit_status>>

\* One round of "for _, data in parts: f.write(data)"; after the last one
\* the file is closed and the function returns.
WriteOk ==
    /\ pc = "write"
    /\ write_i < Len(parts)
    /\ dest' = Concat(dest, parts[write_i + 1][2])
    /\ write_i' = write_i + 1
    /\ IF write_i' = Len(parts)
       THEN pc' = "returned" /\ result' = "ok"
       ELSE UNCHANGED <<pc, result>>
    /\ UNCHANGED <<chunk_size_mb, num_workers, object_size, file_size,
                   chunk_size, num_chunks, actual_workers, parts, lock,
                   futures, num_threads, wait_i, exc, dir_exists,
                   head_calls, download_calls, open_calls, faults_left,
                   completion, failed_order, dest_before,
                   dir_before, env_complete, exit_status, raised_at>>

\* f.write raises OSError; the payloads written so far stay in the file.
WriteFail ==
    /\ pc = "write"
    /\ write_i < Len(parts)
    /\ faults_left > 0
    /\ faults_left' = faults_left - 1
    /\ Raise(OtherError, "write")
    /\ UNCHANGED <<chunk_size_mb, num_workers, object_size, file_size,
                   chunk_size, num_chunks, actual_workers, parts, lock,
                   futures, num_threads, wait_i, write_i, result, dest,
                   dir_exists, head_calls, download_calls, open_calls,
                   completion, failed_order, dest_before,
                   dir_before, env_complete, exit_status>>

\* Mutant: the generic except clause raises without removing the file.
ExceptNoCleanup ==
    /\ pc = "except"
    /\ result' = IF exc.cls # "ClientError" THEN "failed"
                 ELSE IF exc.code = "404" THEN "not_found" ELSE "s3_error"
    /\ pc' = "raised"
    /\ UNCHANGED <<chunk_size_mb, num_workers, object_size, file_size,
                   chunk_size, num_chunks, actual_workers, parts, lock,
                   futures, num_threads, wait_i, write_i, exc, dest,
                   dir_exists, head_calls, download_calls, open_calls,
                   faults_left, completion, failed_order, raised_at, dest_before,
                   dir_before, env_complete, exit_status>>

\* Mutant: every ClientError is reported as "File not found".
ExceptAllNotFound ==
    /\ pc = "except"
    /\ IF exc.cls = "ClientError"
       THEN result' = "not_found" /\ UNCHANGED dest
       ELSE dest' = NoFile /\ result' = "failed"
    /\ pc' = "raised"
    /\ UNCHANGED <<chunk_size_mb, num_workers, object_size, file_size,
                   chunk_size, num_chunks, actual_workers, parts, lock,
                   futures, num_threads, wait_i, write_i, exc, dir_exists,
                   head_calls, download_calls, open_calls, faults_left,
                   completion, failed_order, raised_at, dest_before,
                   dir_before, env_complete, exit_status>>

\* The except clauses: a ClientError is turned into "File not found" or
\* "S3 error"; any other exception removes the destination file, if there
\* is one, and becomes "Failed to download".
Except ==
    /\ pc = "except"
    /\ IF exc.cls = "ClientError"
       THEN /\ result' = IF exc.code = "404" THEN "not_found" ELSE "s3_error"
            /\ UNCHANGED dest
       ELSE /\ dest' = NoFile
            /\ result' = "failed"
    /\ pc' = "raised"
    /\ UNCHANGED <<chunk_size_mb, num_workers, object_size, file_size,
                   chunk_size, num_chunks, actual_workers, parts, lock,
                   futures, num_threads, wait_i, write_i, exc, dir_exists,
                   head_calls, download_calls, open_calls, faults_left,
                   completion, failed_order, dest_before,
                   dir_before, env_complete, exit_status, raised_at>>

(***************************************************************************)
(* main: the process around the call.                                      *)
(***************************************************************************)
\* main checks the required environment variables: when one is missing it
\* prints the list and exits with status 1, otherwise it calls
\* download_from_s3 (whose own test of the bucket then passes).
MainValidate ==
    /\ pc = "main"
    /\ IF env_complete
       THEN pc' = "head_object" /\ UNCHANGED exit_status
       ELSE pc' = "exit" /\ exit_status' = 1
    /\ UNCHANGED <<chunk_size_mb, num_workers, object_size, file_size,
                   chunk_size, num_chunks, actual_workers, parts, lock,
                   futures, num_threads, wait_i, write_i, exc, result, dest,
                   dir_exists, head_calls, download_calls, open_calls,
                   faults_left, completion, failed_order, raised_at,
                   dest_before, dir_before, env_complete>>

\* Mutant: main prints the error and ends without sys.exit(1).
MainExitAlwaysZero ==
    /\ pc \in {"returned", "raised"}
    /\ exit_status = NoExit
    /\ exit_status' = 0
    /\ UNCHANGED <<chunk_size_mb, num_workers, object_size, pc, file_size,
                   chunk_size, num_chunks, actual_workers, parts, lock,
                   futures, num_threads, wait_i, write_i, exc, result, dest,
                   dir_exists, head_calls, download_calls, open_calls,
                   faults_left, completion, failed_order, raised_at,
                   dest_before, dir_before, env_complete>>

\* download_from_s3 has returned: main returns and the process exits with
\* status 0; or it has raised: main prints the error and calls sys.exit(1).
MainExit ==
    /\ pc \in {"returned", "raised"}
    /\ exit_status = NoExit
    /\ exit_status' = IF pc = "returned" THEN 0 ELSE 1
    /\ UNCHANGED <<chunk_size_mb, num_workers, object_size, pc, file_size,
                   chunk_size, num_chunks, actual_workers, parts, lock,
                   futures, num_threads, wait_i, write_i, exc, result, dest,
                   dir_exists, head_calls, download_calls, open_calls,
                   faults_left, completion, failed_order, raised_at,
                   dest_before, dir_before, env_complete>>

(***************************************************************************)
(* The worker threads: download_chunk.                                     *)
(***************************************************************************)
SetFuture(t, f) == futures' = [futures EXCEPT ![t] = f]

WorkerFrame == <<chunk_size_mb, num_workers, object_size, pc, file_size,
                 chunk_size, num_chunks, actual_workers, num_threads, wait_i,
                 write_i, exc, result, dest, dir_exists, head_calls,
                 download_calls, open_calls, raised_at, dest_before,
                 dir_before, env_complete, exit_status>>

\* A free worker thread takes the oldest work item of the queue and calls
\* s3_client.get_object with the task's byte range.
StartChunk(t) ==
    /\ futures[t].state = "queued"
    /\ \A u \in 1..(t - 1) : futures[u].state # "queued"
    /\ WorkerFree
    /\ SetFuture(t, [futures[t] EXCEPT !.state = "get_object",
                                       !.gets = @ + 1])
    /\ UNCHANGED <<WorkerFrame, parts, lock, faults_left, completion,
                   failed_order>>

\* get_object returns; data = response['Body'].read()
GetObjectOk(t) ==
    /\ futures[t].state = "get_object"
    /\ SetFuture(t, [futures[t] EXCEPT
                       !.state = "lock",
                       !.data = RangeBody(futures[t].start_byte,
                                          futures[t].end_byte)])
    /\ UNCHANGED <<WorkerFrame, parts, lock, faults_left, completion,
                   failed_order>>

\* Mutant: a failed get_object puts the task back in the queue.
GetObjectFailRetry(t) ==
    /\ futures[t].state = "get_object"
    /\ faults_left > 0
    /\ faults_left' = faults_left - 1
    /\ SetFuture(t, [futures[t] EXCEPT !.state = "queued"])
    /\ UNCHANGED <<WorkerFrame, parts, lock, completion, failed_order>>

\* get_object or read raises: download_chunk prints and re-raises, the
\* future holds the exception.
GetObjectFail(t) ==
    /\ futures[t].state = "get_object"
    /\ faults_left > 0
    /\ faults_left' = faults_left - 1
    /\ \E e \in GetErrors :
         SetFuture(t, [futures[t] EXCEPT !.state = "failed", !.err = e])
    /\ failed_order' = Append(failed_order, futures[t].chunk_num)
    /\ UNCHANGED <<WorkerFrame, parts, lock, completion>>

\* with lock: the lock is taken when no thread holds it.
AcquireLock(t) ==
    /\ futures[t].state = "lock"
    /\ lock = NoHolder
    /\ lock' = t
    /\ SetFuture(t, [futures[t] EXCEPT !.state = "append"])
    /\ UNCHANGED <<WorkerFrame, parts, faults_left, completion, failed_order>>

\* Mutant: the lock is taken by hand and not released after the append.
AppendPartKeepLock(t) ==
    /\ futures[t].state = "append"
    /\ parts' = Append(parts, PartEntry(futures[t]))
    /\ completion' = Append(completion, futures[t].chunk_num)
    /\ SetFuture(t, [futures[t] EXCEPT !.state = "done"])
    /\ UNCHANGED <<WorkerFrame, lock, faults_left, failed_order>>

\* parts.append((chunk_num, data)), the progress line, and the release of
\* the lock; download_chunk returns.
AppendPart(t) ==
    /\ futures[t].state = "append"
    /\ parts' = Append(parts, PartEntry(futures[t]))
    /\ completion' = Append(completion, futures[t].chunk_num)
    /\ lock' = NoHolder
    /\ SetFuture(t, [futures[t] EXCEPT !.state = "done"])
    /\ UNCHANGED <<WorkerFrame, faults_left, failed_order>>

Worker(t) ==
    \/ StartChunk(t)
    \/ GetObjectOk(t)
    \/ GetObjectFail(t)
    \/ AcquireLock(t)
    \/ AppendPart(t)

Next ==
    \/ MainValidate
    \/ MainExit
    \/ HeadObjectOk
    \/ HeadObjectFail
    \/ MakeDirsOk
    \/ MakeDirsFail
    \/ Plan
    \/ DownloadFileOk
    \/ DownloadFileFail
    \/ Submit
    \/ AwaitResult
    \/ Shutdown
    \/ Sort
    \/ OpenOk
    \/ OpenFail
    \/ WriteOk
    \/ WriteFail
    \/ Except
    \/ \E t \in 1..Len(futures) : Worker(t)

Spec == Init /\ [][Next]_vars

\* The steps of the calling thread.
CallerStep ==
    \/ MainValidate
    \/ MainExit
    \/ HeadObjectOk
    \/ HeadObjectFail
    \/ MakeDirsOk
    \/ MakeDirsFail
    \/ Plan
    \/ DownloadFileOk
    \/ DownloadFileFail
    \/ Submit
    \/ AwaitResult
    \/ Shutdown
    \/ Sort
    \/ OpenOk
    \/ OpenFail
    \/ WriteOk
    \/ WriteFail
    \/ Except

\* The steps of the worker threads.
WorkerStep == \E t \in 1..Len(futures) : Worker(t)

\* Every store call and every file-system call returns or raises, so the
\* calling thread takes its next step when it has one; the operating
\* system schedules the worker threads, so some worker that can take a
\* step does.
Fairness == WF_vars(CallerStep) /\ WF_vars(WorkerStep)

SpecLive == Init /\ [][Next]_vars /\ Fairness

\* The steps of a call in which no store call and no file-system call fails.
WorkerAllSucceed(t) ==
    \/ StartChunk(t)
    \/ GetObjectOk(t)
    \/ AcquireLock(t)
    \/ AppendPart(t)

NextAllSucceed ==
    \/ MainValidate
    \/ MainExit
    \/ HeadObjectOk
    \/ MakeDirsOk
    \/ Plan
    \/ DownloadFileOk
    \/ Submit
    \/ AwaitResult
    \/ Shutdown
    \/ Sort
    \/ OpenOk
    \/ WriteOk
    \/ \E t \in 1..Len(futures) : WorkerAllSucceed(t)

SpecRoundTrip == InitRoundTrip /\ [][NextAllSucceed]_vars

(***************************************************************************)
(* Properties.                                                             *)
(***************************************************************************)
\* The chunk numbers were not appended in ascending order.
OutOfOrder(seq) == \E a, b \in 1..Len(seq) : a < b /\ seq[a] > seq[b]

\* The bytes a sequential download writes with its first k ranged gets:
\* chunk 0, then chunk 1, ... in one thread.
RECURSIVE SequentialBytes(_)
SequentialBytes(k) ==
    IF k = 0 THEN <<>>
    ELSE Concat(SequentialBytes(k - 1),
                RangeBody(StartByte(k - 1, chunk_size),
                          EndByte(k - 1, chunk_size, file_size)))

\* C1: when no store call and no file-system call fails, the call never
\* enters its error handling, and once it has returned the destination
\* file holds exactly the bytes 0..L-1 of the remote object (its length is
\* L), for L in {0, 1, C-1, C, C+1, 10*C+7}, every worker count and every
\* file that was at the destination before.
RoundTripExact ==
    /\ pc \notin {"except", "raised"}
    /\ pc = "returned" =>
         /\ result = "ok"
         /\ dest # NoFile
         /\ dest = RemoteBytes(0, object_size - 1)
         /\ ContentLen(dest) = object_size

\* C1 witness: an object of 10*C+7 bytes was fetched in 11 chunks by two
\* or more threads, out of order, over an existing file, and the call
\* returned.
RoundTripWitness ==
    /\ pc = "returned"
    /\ object_size = 10 * chunk_size + 7
    /\ Len(parts) = 11
    /\ num_threads >= 2
    /\ OutOfOrder(completion)

\* C2: in chunked mode, whatever the order in which the tasks completed,
\* the file holds after k writes exactly what a sequential download holds
\* after k chunks, and the parts are written in ascending chunk number.
OrderIndependent ==
    (open_calls > 0 /\ pc \in {"write", "returned"}) =>
        /\ dest = SequentialBytes(write_i)
        /\ \A k \in 1..Len(parts) : parts[k][1] = k - 1
        /\ pc = "returned" => write_i = num_chunks

\* C2 witness: the tasks completed out of order and the file was written
\* completely.
OrderIndependentWitness ==
    /\ pc = "returned"
    /\ open_calls > 0
    /\ num_chunks >= 3
    /\ OutOfOrder(completion)
    /\ completion[1] # 0

\* C3: while the parts are sorted or read, and once the destination file
\* has been opened, every chunk task has been submitted and has succeeded
\* or failed.
JoinBarrier ==
    (pc \in {"sort", "open", "write"} \/ open_calls > 0) =>
        /\ Len(futures) = num_chunks
        /\ \A t \in 1..Len(futures) : futures[t].state \in {"done", "failed"}
        /\ lock = NoHolder

\* C3 witness: assembly starts after several threads ran several tasks.
JoinBarrierWitness ==
    /\ pc = "sort"
    /\ num_chunks >= 2
    /\ num_threads >= 2
    /\ \A t \in 1..Len(futures) : futures[t].state = "done"

\* C4: once a chunk's get_object has failed, the call does not return
\* normally and never reaches assembly (no sort, no open, no write), the
\* chunk's range is requested once only, and when the call has ended it
\* has raised.
FailedChunkFailsDownload ==
    (\E t \in 1..Len(futures) : futures[t].state = "failed") =>
        /\ pc \in {"submit", "wait", "shutdown", "except", "raised"}
        /\ result # "ok"
        /\ open_calls = 0
        /\ \A t \in 1..Len(futures) : futures[t].gets <= 1
        /\ pc = "raised" => result \in {"s3_error", "failed"}

\* C4 witness: the call raised after a chunk other than the first failed
\* while other chunks succeeded.
FailedChunkWitness ==
    /\ pc = "raised"
    /\ Len(futures) >= 3
    /\ futures[1].state = "done"
    /\ \E t \in 2..Len(futures) : futures[t].state = "failed"
    /\ \E t \in 2..Len(futures) : futures[t].state = "done"

\* C5: after a call that ended in failure, no file exists at the
\* destination path.
NoFileAfterFailure == pc = "raised" => dest = NoFile

\* The length of the byte range of a submitted task.
RangeLen(f) == f.end_byte - f.start_byte + 1

RECURSIVE SumRangeLen(_)
SumRangeLen(k) == IF k = 0 THEN 0 ELSE SumRangeLen(k - 1) + RangeLen(futures[k])

\* C6: in chunked mode with a chunk size > 0 the submitted ranges are
\* numbered 0, 1, ... in order, start at 0, follow each other without gap
\* or overlap and are never empty; once all are submitted there are
\* ceil(file_size / chunk_size) of them, the last ends at file_size - 1 and
\* the lengths add up to file_size; 200 MB in chunks of 64 MB gives ranges
\* of 64, 64, 64 and 8 MB.
ExactPartition ==
    (chunk_size > 0 /\ pc \notin {"head_object", "makedirs", "plan",
                                   "download_file"}
       /\ ~(file_size < chunk_size)) =>
        /\ num_chunks * chunk_size >= file_size
        /\ (num_chunks - 1) * chunk_size < file_size
        /\ Len(futures) <= num_chunks
        /\ \A t \in 1..Len(futures) :
             /\ futures[t].chunk_num = t - 1
             /\ futures[t].start_byte <= futures[t].end_byte
             /\ futures[t].start_byte =
                  IF t = 1 THEN 0 ELSE futures[t - 1].end_byte + 1
        /\ pc # "submit" =>
             /\ Len(futures) = num_chunks
             /\ futures[num_chunks].end_byte = file_size - 1
             /\ SumRangeLen(num_chunks) = file_size
        /\ (pc # "submit" /\ file_size = 200 * MB /\ chunk_size = 64 * MB) =>
             /\ num_chunks = 4
             /\ \A t \in 1..3 : RangeLen(futures[t]) = 64 * MB
             /\ RangeLen(futures[4]) = 8 * MB

\* C6 witness: the plan of a 200 MB object in chunks of 64 MB is complete.
ExactPartitionWitness ==
    /\ pc = "wait"
    /\ file_size = 200 * MB
    /\ chunk_size = 64 * MB
    /\ Len(futures) = 4

\* C7: the number of chunk tasks running at the same time never exceeds
\* min(num_workers, num_chunks).
WorkerClamp ==
    Cardinality({t \in 1..Len(futures) :
                   futures[t].state \in {"get_object", "lock", "append"}})
        <= (IF num_workers < num_chunks THEN num_workers ELSE num_chunks)

\* C7 witness: more workers were asked for than there are chunks, and all
\* the chunks are being fetched at once.
WorkerClampWitness ==
    /\ num_workers > num_chunks
    /\ num_chunks >= 2
    /\ \A t \in 1..num_chunks :
         Len(futures) >= t /\ futures[t].state = "get_object"

\* C8: with a chunk size >= 1, an object shorter than the chunk size (an
\* empty one too) is fetched with one download_file call, with no task, no
\* thread, no ranged get and no open; any other object is fetched in
\* num_chunks >= 1 chunks and never with download_file.
DirectThreshold ==
    chunk_size >= 1 =>
        IF object_size < chunk_size
        THEN /\ pc \in {"download_file", "returned", "except", "raised"}
             /\ futures = <<>>
             /\ num_threads = 0
             /\ num_chunks = 0
             /\ open_calls = 0
             /\ download_calls <= 1
             /\ pc = "returned" =>
                  /\ download_calls = 1
                  /\ dest = RemoteBytes(0, object_size - 1)
        ELSE /\ pc # "download_file"
             /\ download_calls = 0
             /\ num_chunks >= 1
             /\ actual_workers >= 1

\* C8 witness: an empty object was downloaded directly into a zero-byte
\* file.
DirectThresholdWitness ==
    /\ pc = "returned"
    /\ chunk_size >= 1
    /\ object_size = 0
    /\ download_calls = 1
    /\ dest = <<>>

\* C9: parts never holds two entries of one chunk number, every entry is
\* the chunk number and the data of a task that succeeded, and once all
\* tasks have succeeded parts holds exactly one entry for each of
\* 0..num_chunks-1.
NoResultLostOrDuplicated ==
    /\ \A a, b \in 1..Len(parts) : a # b => parts[a][1] # parts[b][1]
    /\ \A a \in 1..Len(parts) :
         \E t \in 1..Len(futures) :
            /\ futures[t].state = "done"
            /\ futures[t].chunk_num = parts[a][1]
            /\ futures[t].data = parts[a][2]
    /\ (/\ num_chunks >= 1
        /\ Len(futures) = num_chunks
        /\ \A t \in 1..Len(futures) : futures[t].state = "done") =>
           /\ Len(parts) = num_chunks
           /\ {parts[a][1] : a \in 1..Len(parts)} = 0..(num_chunks - 1)

\* C9 witness: three or more tasks, run by several threads, have all
\* succeeded, out of order, and parts has not been sorted yet.
NoResultLostWitness ==
    /\ pc \in {"wait", "shutdown"}
    /\ num_chunks >= 3
    /\ num_threads >= 2
    /\ Len(futures) = num_chunks
    /\ \A t \in 1..Len(futures) : futures[t].state = "done"
    /\ OutOfOrder(completion)

\* C10: a call with a chunk size <= 0 issues no store call: no
\* head_object, no get_object, no download_file.
BadChunkSizeNoStoreCall ==
    chunk_size_mb <= 0 =>
        /\ head_calls = 0
        /\ download_calls = 0
        /\ \A t \in 1..Len(futures) : futures[t].gets = 0

\* The destination path holds the same thing in a and in b: no file in
\* both, or files of the same content.
SameFile(a, b) ==
    IF a = NoFile THEN b = NoFile ELSE (b # NoFile /\ a = b)

\* C11: after a call that failed in the size lookup the file system is as
\* it was before the call: the destination folder has not been created and
\* the file at the destination path is neither created, changed nor
\* removed.
HeadFailureLeavesFileSystem ==
    (pc = "raised" /\ raised_at = "head_object") =>
        /\ dir_exists = dir_before
        /\ SameFile(dest, dest_before)

\* C12: a failed call is reported as not found exactly when the store
\* answered 404; every other failure of the size lookup or of a chunk
\* fetch is reported as "S3 error" or "Failed to download", and no failure
\* is reported as success.
NotFoundMapping ==
    /\ raised_at # "none" => result # "ok" /\ pc # "returned"
    /\ pc = "raised" =>
         /\ result \in {"not_found", "s3_error", "failed"}
         /\ (result = "not_found") <=> (exc.cls = "ClientError" /\ exc.code = "404")
         /\ (raised_at \in {"head_object", "chunk"}
               /\ ~(exc.cls = "ClientError" /\ exc.code = "404")) =>
              result \in {"s3_error", "failed"}

\* C12 witness: the size lookup answered 404 and the call reported not
\* found.
NotFoundMappingWitness ==
    /\ pc = "raised"
    /\ raised_at = "head_object"
    /\ exc = ClientError404
    /\ result = "not_found"

\* C13: the process exits with status 0 exactly when download_from_s3
\* returned without raising, and with status 1 when a required variable is
\* missing or the call raised.
ExitCodeDistinction ==
    /\ exit_status \in {NoExit, 0, 1}
    /\ exit_status = 0 =>
         pc = "returned" /\ result = "ok" /\ raised_at = "none" /\ env_complete
    /\ (exit_status # NoExit /\ pc = "returned") => exit_status = 0
    /\ (exit_status # NoExit /\ (pc = "raised" \/ ~env_complete)) =>
         exit_status = 1
    /\ ~env_complete => head_calls = 0 /\ download_calls = 0 /\ futures = <<>>

\* C13 witness: the process has exited with status 1 after a write to the
\* destination file failed.
ExitCodeWitness ==
    /\ exit_status = 1
    /\ pc = "raised"
    /\ raised_at = "write"

NoEarlyAbort ==
    (raised_at = "chunk" /\ pc \in {"except", "raised"}) =>
        /\ Len(futures) = num_chunks
        /\ \A t \in 1..Len(futures) :
             /\ futures[t].state \in {"done", "failed"}
             /\ futures[t].gets = 1
        /\ Len(completion) + Len(failed_order) = num_chunks

\* C15 witness: with one worker thread the first chunk failed while the
\* others were still queued, and all the others were fetched before the
\* call raised.
NoEarlyAbortWitness ==
    /\ pc = "raised"
    /\ raised_at = "chunk"
    /\ num_threads = 1
    /\ num_chunks >= 3
    /\ futures[1].state = "failed"
    /\ \A t \in 2..Len(futures) : futures[t].state = "done"

\* C16: the tasks submitted are one per chunk number 0, 1, ..., each for
\* the byte range [i*chunk_size, min((i+1)*chunk_size, file_size) - 1];
\* each task calls get_object at most once, exactly once when it has
\* started, and no two tasks ask for the same range.
OneAttemptPerChunk ==
    /\ Len(futures) <= num_chunks
    /\ pc \in {"wait", "shutdown", "sort", "open", "write", "returned"} =>
         Len(futures) = num_chunks
    /\ \A t \in 1..Len(futures) :
         /\ futures[t].chunk_num = t - 1
         /\ futures[t].start_byte = (t - 1) * chunk_size
         /\ futures[t].end_byte =
              (IF t * chunk_size < file_size THEN t * chunk_size
               ELSE file_size) - 1
         /\ futures[t].gets = IF futures[t].state = "queued" THEN 0 ELSE 1
    /\ \A t, u \in 1..Len(futures) :
         t # u => futures[t].start_byte # futures[u].start_byte

\* C16 witness: all of three or more tasks have ended, one of them in
\* failure.
OneAttemptWitness ==
    /\ num_chunks >= 3
    /\ Len(futures) = num_chunks
    /\ \A t \in 1..Len(futures) : futures[t].state \in {"done", "failed"}
    /\ \E t \in 1..Len(futures) : futures[t].state = "failed"

FailedTasks == {t \in 1..Len(futures) : futures[t].state = "failed"}

\* C18: the exception the caller re-raises for a failed chunk, and
\* reports, is that of the failed task of lowest chunk number, whatever
\* the order in which the tasks failed.
IndexOrderedFailure ==
    (raised_at = "chunk" /\ pc \in {"shutdown", "except", "raised"}) =>
        /\ FailedTasks # {}
        /\ \E m \in FailedTasks :
             /\ \A t \in FailedTasks : m <= t
             /\ exc = futures[m].err
        /\ pc = "raised" =>
             result = IF exc.cls = "ClientError" THEN "s3_error" ELSE "failed"

\* C18 witness: two chunks failed with different errors, the one of
\* higher number first, and the call reported the error of the lower one.
IndexOrderedWitness ==
    /\ pc = "raised"
    /\ raised_at = "chunk"
    /\ Len(failed_order) = 2
    /\ failed_order[1] > failed_order[2]
    /\ futures[failed_order[1] + 1].err # futures[failed_order[2] + 1].err
    /\ exc = futures[failed_order[2] + 1].err

\* C19: under fair scheduling every call of download_from_s3 ends: once it
\* has started, it eventually has returned or raised.
Termination == (pc = "head_object") ~> (pc \in {"returned", "raised"})

\* C19 witness: a call with several worker threads, in which two chunks
\* failed and the others were fetched, has ended.
TerminationWitness ==
    /\ pc = "raised"
    /\ num_threads >= 2
    /\ num_chunks >= 3
    /\ Len(failed_order) = 2
    /\ Len(completion) >= 1

====
